---- MODULE Spec2Model ----
(***************************************************************************)
(* A model of syncsh (src/syncsh.c): NProcs instances of the wrapper run   *)
(* concurrently under one make, share the real stdout / stderr, the tee    *)
(* file and the kernel's table of fcntl() byte-range locks on the file     *)
(* behind stdout.  Every instance is past the dispatch test of main() and  *)
(* is on the synchronizing path (main, line 234 onward).                   *)
(*                                                                         *)
(* Strings are sequences of character codes.  A stream (real stdout, real  *)
(* stderr, the tee file) is a sequence of segments; a segment              *)
(* [p, src, lo, hi] stands for the bytes lo..hi of source src of instance  *)
(* p, so that a stream of several thousand bytes stays a short value.      *)
(* Streams are kept canonical (adjacent segments that continue one another *)
(* are merged), so two streams are equal exactly when their bytes are.     *)
(***************************************************************************)
EXTENDS Integers, Sequences, FiniteSets, TLC

\* ------------------------------------------------------------------ bounds

\* number of concurrent instances of the wrapper
NProcs == 2
\* number of short (partial) write() results the kernel returns in one run
MaxShort == 1
\* number of system calls that fail in one run
MaxFaults == 1

\* --------------------------------------------------------- program constants

\* sizeof(buffer) in pump_from_tmp_fd
BufSize == 8192
\* EXIT_FAILURE, the child's exit code when execvp fails
ExitFailure == 1
\* the code syserr() is called with on every fatal path, and the early return
FatalCode == 2

Procs == 1..NProcs

\* FILE* NULL / sem NULL / fd -1 / "still running"
NULL == -1

Min(a, b) == IF a < b THEN a ELSE b

\* ------------------------------------------------------------ environment

\* getenv(): a variable is unset, or set to a string
Unset == [set |-> FALSE, val |-> <<>>]
Str(s) == [set |-> TRUE, val |-> s]

\* "D", "AAA", "[" : two literal patterns and one that does not compile
PatD == <<68>>
PatAAA == <<65, 65, 65>>
PatBad == <<91>>
Patterns == {PatD, PatAAA, PatBad}

\* recipe texts (argv[2]): "C" and "DAAA"
RecipeC == <<67>>
RecipeDAAA == <<68, 65, 65, 65>>
Recipes == {RecipeC, RecipeDAAA}

\* SYNCSH_HEADLINE value "=="
HeadlineText == <<61, 61>>
\* SYNCSH_TEE values "log" (relative) and "/log" (absolute)
TeeRel == <<108, 111, 103>>
TeeAbs == <<47, 108, 111, 103>>

Envs ==
    [serialize : {Unset} \cup {Str(p) : p \in Patterns},
     headline  : {Unset, Str(HeadlineText)},
     tee       : {Unset, Str(TeeRel), Str(TeeAbs)}]

\* is_absolute(path): *path == '/'
is_absolute(path) == Len(path) > 0 /\ path[1] = 47

\* regcomp(&re, serialize, REG_EXTENDED) on the patterns above: nonzero (an
\* error) for a bracket expression that is never closed, zero otherwise
regcomp(p) ==
    IF \E k \in 1..Len(p) : p[k] = 91 /\ ~ \E m \in (k+1)..Len(p) : p[m] = 93
    THEN 1 ELSE 0

\* regexec(&re, recipe, ...) for a pattern without metacharacters: zero (a
\* match) exactly when the pattern occurs in the recipe
regexec(p, r) ==
    IF \E k \in 0..(Len(r) - Len(p)) : \A m \in 1..Len(p) : r[k + m] = p[m]
    THEN 0 ELSE 1

\* ---------------------------------------------------------------- str_hash

\* the low 16 bits of x << n
RECURSIVE ShlLow16(_, _)
ShlLow16(x, n) == IF n = 0 THEN x % 65536 ELSE ShlLow16((2 * x) % 65536, n - 1)

\* one round of the loop: hash = (*str) + (hash << 6) + (hash << 16) - hash,
\* stored into a uint16_t, which keeps the low 16 bits of the int sum
HashStep(hash, c) == (c + ShlLow16(hash, 6) + ShlLow16(hash, 16) - hash) % 65536

RECURSIVE HashLoop(_, _, _)
HashLoop(str, i, hash) ==
    IF i > Len(str) THEN hash ELSE HashLoop(str, i + 1, HashStep(hash, str[i]))

\* str_hash(str, strlen(str)): return hash >> 1
str_hash(str) == HashLoop(str, 1, 0) \div 2

\* the byte offsets instances can lock: 0 and the hash of each pattern
Offsets == {0} \cup {str_hash(p) : p \in Patterns}

\* ----------------------------------------------------------------- streams

Seg(p, src, lo, hi) == [p |-> p, src |-> src, lo |-> lo, hi |-> hi]

\* write(fd, ...) appends the bytes to the stream behind fd
Emit(s, seg) ==
    IF Len(s) > 0 /\ seg.src # "diag" /\ s[Len(s)].p = seg.p
                  /\ s[Len(s)].src = seg.src /\ s[Len(s)].hi + 1 = seg.lo
    THEN [s EXCEPT ![Len(s)].hi = seg.hi]
    ELSE Append(s, seg)

\* ------------------------------------------------------------- wait status

\* the status waitpid() stores for a child that called exit(c)
StatusExited(c) == (c % 256) * 256
\* ... and for a child killed by signal sig (core = 1 when it dumped core)
StatusSignaled(sig, core) == sig + 128 * core

WIFEXITED(st) == st % 128 = 0
WEXITSTATUS(st) == (st \div 256) % 256
WIFSIGNALED(st) == st % 128 # 0

\* what running a recipe does: the write() calls the shell and its commands
\* make, as <<fd, size>>, and how the shell ends.  A silent success; two bytes
\* on stdout and one on stderr, then exit(2); more on stdout than
\* pump_from_tmp_fd's buffer holds; a byte on stdout, then death by SIGKILL
Behaviours ==
    { [writes |-> <<>>,                 end |-> StatusExited(0)],
      [writes |-> <<<<1, 2>>, <<2, 1>>>>, end |-> StatusExited(2)],
      [writes |-> <<<<1, BufSize + 1>>>>, end |-> StatusExited(0)],
      [writes |-> <<<<1, 1>>>>,          end |-> StatusSignaled(9, 0)] }

\* ------------------------------------------------------------- invocations

\* argv[0] as make runs the wrapper: "syncsh"
ProgName == <<115, 121, 110, 99, 115, 104>>
\* argv[1]: "-c", "-ec", "-x", "c", "-h", "helper"
ArgDashC == <<45, 99>>
ArgDashEC == <<45, 101, 99>>
ArgDashX == <<45, 120>>
ArgC == <<99>>
ArgDashH == <<45, 104>>
ArgHelper == <<104, 101, 108, 112, 101, 114>>
FirstArgs == {ArgDashC, ArgDashEC, ArgDashX, ArgC, ArgDashH, ArgHelper}
\* argv[2]: "C", "-C"
SecondArgs == {RecipeC, <<45, 67>>}
\* argv[3]: "x"
ThirdArgs == {<<120>>}

\* the command lines: the program name followed by zero to three arguments
Argvs ==
    {<<ProgName>>}
    \cup {<<ProgName, a>> : a \in FirstArgs}
    \cup {<<ProgName, a, b>> : a \in FirstArgs, b \in SecondArgs}
    \cup {<<ProgName, a, b, c>> : a \in FirstArgs, b \in SecondArgs, c \in ThirdArgs}

\* the text "help" of line 199
HelpWord == <<104, 101, 108, 112>>
\* "/bin/sh", the shell when SYNCSH_SHELL is unset, and a SYNCSH_SHELL value "/b"
DefaultShell == <<47, 98, 105, 110, 47, 115, 104>>
OtherShell == <<47, 98>>
\* SYNCSH_VERBOSE values: "" and "+"
VerbosePrefixes == {<<>>, <<43>>}

\* strchr(s, c) != NULL
strchr(s, c) == \E k \in 1..Len(s) : s[k] = c
\* strstr(s, w) != NULL
strstr(s, w) == \E k \in 0..(Len(s) - Len(w)) : \A m \in 1..Len(w) : s[k + m] = w[m]
\* s[0] == c (s[0] is the terminator of an empty string)
FirstCharIs(s, c) == Len(s) > 0 /\ s[1] = c

\* line 199: argc <= 1 || !strcmp(argv[1], "-h") || strstr(argv[1], "help")
UsageRequested(argv) ==
    IF Len(argv) <= 1 THEN TRUE
    ELSE argv[2] = ArgDashH \/ strstr(argv[2], HelpWord)

\* lines 223-224: argc != 3 || argv[1][0] != '-' || !strchr(argv[1], 'c')
\*                || argv[2][0] == '-' || !getenv("MAKELEVEL")
NotARecipe(argv, makelevel) ==
    IF Len(argv) # 3 THEN TRUE
    ELSE
    \/ ~ FirstCharIs(argv[2], 45)
    \/ ~ strchr(argv[2], 99)
    \/ FirstCharIs(argv[3], 45)
    \/ ~ makelevel

\* lines 207-208: sh = getenv("SYNCSH_SHELL"), or "/bin/sh"
ShellOf(shell) == IF shell.set THEN shell.val ELSE DefaultShell

\* the bytes vb() writes: the prefix if it is not empty, then every argument
\* followed by a space, the last one by a line break
RECURSIVE VbArgs(_)
VbArgs(args) ==
    IF args = <<>> THEN <<>>
    ELSE Head(args) \o (IF Len(args) > 1 THEN <<32>> ELSE <<10>>) \o VbArgs(Tail(args))

vb(prefix, args) == prefix \o VbArgs(args)

\* something the wrapper itself wrote to stderr
Wrote(kind, text) == [kind |-> kind, text |-> text]

\* the invocations: a command line, MAKELEVEL, SYNCSH_VERBOSE and SYNCSH_SHELL
Calls ==
    [argv : Argvs, makelevel : BOOLEAN,
     verbose : {Unset} \cup {Str(v) : v \in VerbosePrefixes},
     shell : {Unset, Str(OtherShell)},
     streams : {"both", "stderr", "none"}, execfails : BOOLEAN,
     at : {"main"}, image : {<<>>}, shargv : {<<>>}, syncfd : {-1}, werr : {<<>>},
     code : {NULL}]

\* no invocation is under way
NoCall ==
    [argv |-> <<>>, makelevel |-> FALSE, verbose |-> Unset, shell |-> Unset,
     streams |-> "both", execfails |-> FALSE,
     at |-> "none", image |-> <<>>, shargv |-> <<>>, syncfd |-> -1, werr |-> <<>>,
     code |-> NULL]

\* ------------------------------------------------------- str_hash, stepwise

\* the number of values of the loop counter, uint16_t i
CounterMod == 65536
\* longest pattern whose characters are all chosen freely
MaxHashLen == 4
\* 7-bit characters: the smallest, 'A', 'D' and the largest
Chars7 == {1, 65, 68, 127}

RECURSIVE StringsUpTo(_)
StringsUpTo(n) ==
    IF n = 0 THEN {<<>>}
    ELSE LET shorter == StringsUpTo(n - 1)
         IN  shorter \cup {Append(t, c) : t \in {u \in shorter : Len(u) = n - 1}, c \in Chars7}

\* a pattern is reps copies of unit: every short string once, and 'z' repeated
\* CounterMod - 1 and CounterMod times
HashInputs ==
    {[unit |-> t, reps |-> 1] : t \in StringsUpTo(MaxHashLen)}
    \cup {[unit |-> <<122>>, reps |-> n] : n \in {CounterMod - 1, CounterMod}}

\* strlen(serialize)
StrLen(pat) == Len(pat.unit) * pat.reps
\* the character at 0-based position p < strlen
CharAt(pat, p) == pat.unit[(p % Len(pat.unit)) + 1]

\* no call of str_hash is under way
NoRun ==
    [pat |-> [unit |-> <<>>, reps |-> 0], at |-> "none", pos |-> 0, i |-> 0, hash |-> 0,
     ref |-> 0, result |-> NULL]

\* the script of an instance whose shell has not run (yet)
NoScript == [writes |-> <<>>, end |-> NULL]

VARIABLES
    env,        \* the environment the instances inherit from make
    recipe,     \* recipe[i]: argv[2] of instance i
    pc,         \* pc[i]: where instance i is in main()
    sem,        \* sem[i]: main's sem: NULL, or the offset acquired
    lock,       \* lock[off]: the instance holding byte off of stdout's file, or 0
    tempout,    \* tempout[i]: NULL, or the length of the capture file
    temperr,    \* temperr[i]: same for stderr
    child,      \* child[i]: "none", "running", "zombie", "reaped"
    script,     \* script[i]: what the recipe of instance i does once it runs
    nwrites,    \* nwrites[i]: write() calls child i has made
    live,       \* live[i]: bytes child i wrote straight to real [stdout, stderr]
    kstatus,    \* kstatus[i]: wait status of the terminated child
    status,     \* status[i]: main's status
    teefd,      \* teefd[i]: -1, or the descriptor of the opened tee file
    nleft,      \* nleft[i]: pump_from_tmp_fd's nleft
    shorts,     \* short writes met so far in this run
    faults,     \* system calls that failed so far in this run
    exitcode,   \* exitcode[i]: NULL while running, then the exit code
    exitvia,    \* exitvia[i]: the line of main() the instance left by
    out,        \* the real stdout
    err,        \* the real stderr
    tee,        \* the tee file
    call,       \* one invocation on its way through lines 183-248 of main()
    hrun,       \* one call of str_hash() on its way through its loop
    parent      \* parent[i]: the instance whose recipe runs instance i, or 0
                \* when make itself runs it

\* the state of the instances that synchronize
syncvars == <<env, recipe, pc, sem, lock, tempout, temperr, child, script, nwrites, live,
              kstatus, status, teefd, nleft, shorts, faults, exitcode, exitvia, out, err,
              tee>>

vars == <<syncvars, call, hrun, parent>>


TypeOK ==
    /\ env \in Envs
    /\ recipe \in [Procs -> Recipes]
    /\ sem \in [Procs -> {NULL} \cup Offsets]
    /\ lock \in [Offsets -> {0} \cup Procs]
    /\ child \in [Procs -> {"none", "running", "zombie", "reaped"}]
    /\ exitcode \in [Procs -> {NULL} \cup 0..255]
    /\ shorts \in 0..MaxShort
    /\ faults \in 0..MaxFaults
    /\ parent \in [Procs -> {0} \cup Procs]

\* every instance is run by make itself
NoParent == [i \in Procs |-> 0]

\* the state when every instance has reached line 234 of main(): nothing is
\* locked, no capture file exists, nothing has been written.  The instances
\* are interchangeable, so the recipes are dealt in one order only: the first
\* k instances run "C", the others "DAAA"
Start(e, r) ==
    /\ env = e
    /\ recipe = r
    /\ pc = [i \in Procs |-> "classify"]
    /\ sem = [i \in Procs |-> NULL]
    /\ lock = [o \in Offsets |-> 0]
    /\ tempout = [i \in Procs |-> NULL]
    /\ temperr = [i \in Procs |-> NULL]
    /\ child = [i \in Procs |-> "none"]
    /\ script = [i \in Procs |-> NoScript]
    /\ nwrites = [i \in Procs |-> 0]
    /\ live = [i \in Procs |-> <<0, 0>>]
    /\ kstatus = [i \in Procs |-> 0]
    /\ status = [i \in Procs |-> 0]
    /\ teefd = [i \in Procs |-> -1]
    /\ nleft = [i \in Procs |-> 0]
    /\ shorts = 0
    /\ faults = 0
    /\ exitcode = [i \in Procs |-> NULL]
    /\ exitvia = [i \in Procs |-> 0]
    /\ out = <<>>
    /\ err = <<>>
    /\ tee = <<Seg(0, "old", 1, 1)>>

Init ==
    /\ \E e \in Envs, k \in 0..NProcs :
          Start(e, [i \in Procs |-> IF i <= k THEN RecipeC ELSE RecipeDAAA])
    /\ call = NoCall
    /\ hrun = NoRun
    /\ parent = NoParent

\* a diagnostic written to stderr by the statement at the given line
Diag(e, i, line) == Emit(e, Seg(i, "diag", line, line))

\* a system call fails: counted, so that a run meets at most MaxFaults failures
Fault ==
    /\ faults < MaxFaults
    /\ faults' = faults + 1

\* mutant: the locks outlive the process that took them
DropLocks_Kept(l, i) == l

\* the kernel drops every lock of a process that ends
DropLocks(l, i) == [o \in Offsets |-> IF l[o] = i THEN 0 ELSE l[o]]

\* exit(code) / return code from main: the process ends with the low 8 bits
\* of code, and the kernel drops every lock the process still holds
Terminate(i, code, line) ==
    /\ pc' = [pc EXCEPT ![i] = "exited"]
    /\ exitcode' = [exitcode EXCEPT ![i] = code % 256]
    /\ exitvia' = [exitvia EXCEPT ![i] = line]
    /\ lock' = DropLocks(lock, i)

\* lines 276-280: tmpfile() twice; e is stderr and f the number of failed
\* system calls after what the step has done so far
PrepareTempfiles(i, e, f) ==
    \/ /\ tempout' = [tempout EXCEPT ![i] = 0]
       /\ temperr' = [temperr EXCEPT ![i] = 0]
       /\ pc' = [pc EXCEPT ![i] = "spawn"]
       /\ err' = e
       /\ faults' = f
       /\ UNCHANGED <<exitcode, exitvia, lock>>
    \/ /\ f < MaxFaults
       /\ faults' = f + 1
       /\ err' = Diag(e, i, 278)
       /\ Terminate(i, FatalCode, 278)
       /\ UNCHANGED <<tempout, temperr>>

\* mutant: the pattern is compiled but never matched against the recipe
Serialized_AnyRecipe(i) ==
    env.serialize.set /\ regcomp(env.serialize.val) = 0

\* lines 255-273 of main: does the recipe belong to the serialized class?
Serialized(i) ==
    /\ env.serialize.set
    /\ regcomp(env.serialize.val) = 0
    /\ regexec(env.serialize.val, recipe[i]) = 0

\* does the recipe of instance i run its own instances of the wrapper (a
\* recursive make with the same SHELL and environment)?  Only the child of an
\* instance that captures nothing is followed into them: it inherits the real
\* stdout, so its instances lock the same file
RunsInstances(i) == child[i] = "running" /\ tempout[i] = NULL

\* instance i has been started: by make at any time, by the child of its
\* parent while that child runs
Launched(i) == IF parent[i] = 0 THEN TRUE ELSE RunsInstances(parent[i])

\* lines 255-280 up to the call of acquire_semaphore
Classify(i) ==
    /\ pc[i] = "classify"
    /\ Launched(i)
    /\ IF Serialized(i)
       THEN /\ pc' = [pc EXCEPT ![i] = "acq_ser"]
            /\ UNCHANGED <<tempout, temperr, err, faults, exitcode, exitvia, lock>>
       ELSE PrepareTempfiles(i,
                IF env.serialize.set /\ regcomp(env.serialize.val) # 0
                THEN Diag(err, i, 260) ELSE err,
                faults)
    /\ UNCHANGED <<call, hrun, parent, env, recipe, sem, child, script, nwrites, live, kstatus, status,
                   teefd, nleft, shorts, out, tee>>

\* mutant: the call does not wait for the holder (F_SETLK with its result
\* ignored, or a lock type that does not exclude)
CanLock_NoWait(i, off) == TRUE

\* fcntl(fd, F_SETLKW, &fl) with F_WRLCK returns once no other process holds
\* the byte
CanLock(i, off) == lock[off] \in {0, i}

\* mutant: the call locks nothing (l_len or the descriptor is wrong)
Grant_Nothing(l, i, off) == l

\* ... and the kernel then records the caller as the owner of the byte
Grant(l, i, off) == [l EXCEPT ![off] = i]

\* acquire_semaphore at line 269, offset str_hash(serialize)
AcquireSerialize(i) ==
    /\ pc[i] = "acq_ser"
    /\ LET off == str_hash(env.serialize.val) IN
       \/ /\ CanLock(i, off)
          /\ lock' = Grant(lock, i, off)
          /\ sem' = [sem EXCEPT ![i] = off]
          /\ pc' = [pc EXCEPT ![i] = "spawn"]
          /\ UNCHANGED <<tempout, temperr, err, faults, exitcode, exitvia>>
       \/ \* fcntl fails: perror, sem stays NULL, main goes on to line 276
          /\ faults < MaxFaults
          /\ PrepareTempfiles(i, Diag(err, i, 166), faults + 1)
          /\ UNCHANGED sem
    /\ UNCHANGED <<call, hrun, parent, env, recipe, child, script, nwrites, live, kstatus, status,
                   teefd, nleft, shorts, out, tee>>

\* lines 283-298: vfork(); the parent is suspended until the child has
\* redirected its descriptors and called execvp (or exited)
Spawn(i) ==
    /\ pc[i] = "spawn"
    /\ \/ \* vfork fails: syserr(2, "fork")
          /\ Fault
          /\ err' = Diag(err, i, 297)
          /\ Terminate(i, FatalCode, 297)
          /\ UNCHANGED <<temperr, child, kstatus, live, script>>
       \/ \* close/dup2 fails in the child: syserr(2, ...) there
          /\ Fault
          /\ tempout[i] # NULL
          /\ err' = Diag(err, i, 287)
          /\ child' = [child EXCEPT ![i] = "zombie"]
          /\ kstatus' = [kstatus EXCEPT ![i] = StatusExited(FatalCode)]
          /\ pc' = [pc EXCEPT ![i] = "wait"]
          /\ UNCHANGED <<temperr, live, exitcode, exitvia, lock, script>>
       \/ \* execvp fails: perror() on the child's stderr, exit(EXIT_FAILURE)
          /\ Fault
          /\ IF temperr[i] # NULL
             THEN /\ temperr' = [temperr EXCEPT ![i] = temperr[i] + 1]
                  /\ UNCHANGED <<err, live>>
             ELSE /\ err' = Emit(err, Seg(i, "lerr", live[i][2] + 1, live[i][2] + 1))
                  /\ live' = [live EXCEPT ![i][2] = live[i][2] + 1]
                  /\ UNCHANGED temperr
          /\ child' = [child EXCEPT ![i] = "zombie"]
          /\ kstatus' = [kstatus EXCEPT ![i] = StatusExited(ExitFailure)]
          /\ pc' = [pc EXCEPT ![i] = "wait"]
          /\ UNCHANGED <<exitcode, exitvia, lock, script>>
       \/ \* the shell runs the recipe
          /\ child' = [child EXCEPT ![i] = "running"]
          /\ \E b \in Behaviours : script' = [script EXCEPT ![i] = b]
          /\ pc' = [pc EXCEPT ![i] = "wait"]
          /\ UNCHANGED <<temperr, err, live, kstatus, exitcode, exitvia, lock, faults>>
    /\ UNCHANGED <<call, hrun, parent, env, recipe, sem, tempout, nwrites, status, teefd, nleft,
                   shorts, out, tee>>

\* the running child makes the next write() of its script, of w[2] bytes to
\* its stdout (fd 1) or stderr (fd 2): into the capture file when main
\* redirected it, else to the real stream
ChildWrite(i) ==
    /\ child[i] = "running"
    /\ nwrites[i] < Len(script[i].writes)
    /\ nwrites' = [nwrites EXCEPT ![i] = nwrites[i] + 1]
    /\ LET w == script[i].writes[nwrites[i] + 1]
           n == w[2]
       IN  IF w[1] = 1
           THEN IF tempout[i] # NULL
                THEN /\ tempout' = [tempout EXCEPT ![i] = tempout[i] + n]
                     /\ UNCHANGED <<temperr, out, err, live>>
                ELSE /\ out' = Emit(out, Seg(i, "lout", live[i][1] + 1, live[i][1] + n))
                     /\ live' = [live EXCEPT ![i][1] = live[i][1] + n]
                     /\ UNCHANGED <<tempout, temperr, err>>
           ELSE IF temperr[i] # NULL
                THEN /\ temperr' = [temperr EXCEPT ![i] = temperr[i] + n]
                     /\ UNCHANGED <<tempout, out, err, live>>
                ELSE /\ err' = Emit(err, Seg(i, "lerr", live[i][2] + 1, live[i][2] + n))
                     /\ live' = [live EXCEPT ![i][2] = live[i][2] + n]
                     /\ UNCHANGED <<tempout, temperr, out>>
    /\ UNCHANGED <<call, hrun, parent, env, recipe, pc, sem, lock, child, script, kstatus, status, teefd,
                   nleft, shorts, faults, exitcode, exitvia, tee>>

\* the running child terminates, by exit(c) or by a signal, after the
\* instances it runs have exited (a shell or make waits for its commands)
ChildExit(i) ==
    /\ child[i] = "running"
    /\ nwrites[i] = Len(script[i].writes)
    /\ \A j \in Procs : parent[j] = i /\ RunsInstances(i) => pc[j] = "exited"
    /\ child' = [child EXCEPT ![i] = "zombie"]
    /\ kstatus' = [kstatus EXCEPT ![i] = script[i].end]
    /\ UNCHANGED <<call, hrun, parent, env, recipe, pc, sem, lock, tempout, temperr, script, nwrites, live,
                   status, teefd, nleft, shorts, faults, exitcode, exitvia,
                   out, err, tee>>

\* ------------------------------------------------- the critical section

\* the steps of lines 325-354 that write or unlock, in program order
StageOrder == <<"hl", "hl_nl", "tee_hl", "tee_nl", "pump_out", "pump_out_tee",
                "pump_err", "pump_err_tee", "release">>

\* does instance i do anything at this step?  (tf is its teefd)
HasWork(i, st, tf) ==
    CASE st \in {"hl", "hl_nl"} -> env.headline.set
      [] st \in {"tee_hl", "tee_nl"} -> tf > 0 /\ env.headline.set
      [] st = "pump_out" -> tempout[i] > 0
      [] st = "pump_out_tee" -> tf > 0 /\ tempout[i] > 0
      [] st = "pump_err" -> temperr[i] > 0
      [] st = "pump_err_tee" -> tf > 0 /\ temperr[i] > 0
      [] OTHER -> TRUE

RECURSIVE NextStage(_, _, _)
NextStage(i, k, tf) ==
    IF HasWork(i, StageOrder[k], tf) THEN StageOrder[k] ELSE NextStage(i, k + 1, tf)

\* pump_from_tmp_fd, lines 129-133: lseek to 0 and read one buffer
FirstRead(i, st) ==
    CASE st \in {"pump_out", "pump_out_tee"} -> Min(BufSize, tempout[i])
      [] st \in {"pump_err", "pump_err_tee"} -> Min(BufSize, temperr[i])
      [] OTHER -> 0

\* go on to the first step from StageOrder[k] on that has work to do
GoStage(i, k, tf) ==
    LET st == NextStage(i, k, tf) IN
    /\ pc' = [pc EXCEPT ![i] = st]
    /\ nleft' = [nleft EXCEPT ![i] = FirstRead(i, st)]

\* the step after the one instance i is at
StageAfter(i) == 1 + (CHOOSE k \in 1..Len(StageOrder) : StageOrder[k] = pc[i])

\* mutant: waitpid does not block (WNOHANG)
ChildTerminated_NoHang(i) == TRUE

\* waitpid(child, &status, 0) returns once the child has terminated
ChildTerminated(i) == child[i] = "zombie"

\* mutant: line 317 calls acquire_semaphore whatever sem is
NeedsPublishLock_Always(i) == TRUE

\* the test !sem of line 317: only an instance without a lock asks for byte 0
NeedsPublishLock(i) == sem[i] = NULL

\* lines 300-315: waitpid() reaps the terminated child; then the capture
\* files are rewound and the tee file is opened
Wait(i) ==
    /\ pc[i] = "wait"
    /\ ChildTerminated(i)
    /\ child' = [child EXCEPT ![i] = IF @ = "zombie" THEN "reaped" ELSE @]
    /\ status' = [status EXCEPT ![i] = kstatus[i]]
    /\ \/ \* lseek fails: syserr(2, "lseek(stdout)") / syserr(2, "lseek(stderr)")
          /\ Fault
          /\ tempout[i] # NULL
          /\ err' = Diag(err, i, 303)
          /\ Terminate(i, FatalCode, 303)
          /\ UNCHANGED teefd
       \/ \* SYNCSH_TEE is not an absolute path: return 2
          /\ env.tee.set /\ ~ is_absolute(env.tee.val)
          /\ err' = Diag(err, i, 310)
          /\ Terminate(i, FatalCode, 312)
          /\ UNCHANGED <<teefd, faults>>
       \/ \* open() of the tee file succeeds
          /\ ~ (env.tee.set /\ ~ is_absolute(env.tee.val))
          /\ teefd' = [teefd EXCEPT ![i] = IF env.tee.set THEN 3 ELSE -1]
          /\ pc' = [pc EXCEPT ![i] = IF NeedsPublishLock(i) THEN "acq0" ELSE "release"]
          /\ UNCHANGED <<err, exitcode, exitvia, lock, faults>>
       \/ \* open() of the tee file fails
          /\ Fault
          /\ env.tee.set /\ is_absolute(env.tee.val)
          /\ teefd' = [teefd EXCEPT ![i] = -1]
          /\ pc' = [pc EXCEPT ![i] = IF NeedsPublishLock(i) THEN "acq0" ELSE "release"]
          /\ UNCHANGED <<err, exitcode, exitvia, lock>>
    /\ UNCHANGED <<call, hrun, parent, env, recipe, sem, tempout, temperr, script, nwrites, live, kstatus,
                   nleft, shorts, out, tee>>

\* line 317: acquire_semaphore at offset 0, entered only with sem == NULL
AcquirePublish(i) ==
    /\ pc[i] = "acq0"
    /\ \/ /\ CanLock(i, 0)
          /\ lock' = Grant(lock, i, 0)
          /\ sem' = [sem EXCEPT ![i] = 0]
          /\ GoStage(i, 1, teefd[i])
          /\ UNCHANGED <<err, faults>>
       \/ \* fcntl fails: perror, sem stays NULL, the block of line 317 is skipped
          /\ Fault
          /\ err' = Diag(err, i, 166)
          /\ pc' = [pc EXCEPT ![i] = "finish"]
          /\ UNCHANGED <<lock, sem, nleft>>
    /\ UNCHANGED <<call, hrun, parent, env, recipe, tempout, temperr, child, script, nwrites, live, kstatus,
                   status, teefd, shorts, exitcode, exitvia, out, tee>>

\* lines 325-336: the headline and its line break, to stdout and to the tee file
WriteHeadline(i) ==
    /\ pc[i] \in {"hl", "hl_nl", "tee_hl", "tee_nl"}
    /\ LET n == Len(env.headline.val)
           seg == IF pc[i] \in {"hl", "tee_hl"} THEN Seg(i, "hl", 1, n)
                                                ELSE Seg(i, "hl", n + 1, n + 1)
       IN  IF pc[i] \in {"hl", "hl_nl"}
           THEN out' = Emit(out, seg) /\ UNCHANGED tee
           ELSE tee' = Emit(tee, seg) /\ UNCHANGED out
    /\ GoStage(i, StageAfter(i), teefd[i])
    /\ UNCHANGED <<call, hrun, parent, env, recipe, sem, lock, tempout, temperr, child, script, nwrites, live,
                   kstatus, status, teefd, shorts, faults, exitcode, exitvia, err>>

\* what write(to_fd, buffer, n) can return: n, or less when the kernel
\* accepts only part of the request
WriteResults(n) ==
    {n} \cup (IF shorts < MaxShort /\ n > 1 THEN {1} ELSE {})

\* one write() of pump_from_tmp_fd's inner loop, lines 137-148:
\* write(to_fd, buffer, nleft); nleft -= nwrite; both loops end at nleft == 0
PumpWrite(i) ==
    /\ pc[i] \in {"pump_out", "pump_out_tee", "pump_err", "pump_err_tee"}
    /\ \E nwrite \in WriteResults(nleft[i]) :
          LET src == IF pc[i] \in {"pump_out", "pump_out_tee"} THEN "cout" ELSE "cerr"
              seg == Seg(i, src, 1, nwrite)
          IN  /\ CASE pc[i] = "pump_out" -> out' = Emit(out, seg) /\ UNCHANGED <<err, tee>>
                   [] pc[i] = "pump_err" -> err' = Emit(err, seg) /\ UNCHANGED <<out, tee>>
                   [] OTHER -> tee' = Emit(tee, seg) /\ UNCHANGED <<out, err>>
              /\ shorts' = IF nwrite < nleft[i] THEN shorts + 1 ELSE shorts
              /\ IF nleft[i] - nwrite > 0
                 THEN /\ nleft' = [nleft EXCEPT ![i] = nleft[i] - nwrite]
                      /\ UNCHANGED pc
                 ELSE GoStage(i, StageAfter(i), teefd[i])
    /\ UNCHANGED <<call, hrun, parent, env, recipe, sem, lock, tempout, temperr, child, script, nwrites, live,
                   kstatus, status, teefd, faults, exitcode, exitvia>>

\* mutant: the unlock request starts at byte 0 whatever was locked
Unlock_ByteZero(l, off) == [l EXCEPT ![0] = 0]

\* fcntl(fd, F_SETLKW, flp) with F_UNLCK on the flock that acquire_semaphore
\* filled in: l_start is still the offset that was locked
Unlock(l, off) == [l EXCEPT ![off] = 0]

\* release_semaphore, lines 170-178, called at line 354 when sem != NULL
Release(i) ==
    /\ pc[i] = "release"
    /\ \/ /\ lock' = Unlock(lock, sem[i])
          /\ UNCHANGED <<err, faults>>
       \/ \* fcntl fails: perror only
          /\ Fault
          /\ err' = Diag(err, i, 177)
          /\ UNCHANGED lock
    /\ pc' = [pc EXCEPT ![i] = "finish"]
    /\ UNCHANGED <<call, hrun, parent, env, recipe, sem, tempout, temperr, child, script, nwrites, live,
                   kstatus, status, teefd, nleft, shorts, exitcode, exitvia, out, tee>>

\* mutant: the status is returned without the shift
ReturnValue_NoShift(st) == st

\* main's return value at line 358: status >> 8
ReturnValue(st) == st \div 256

\* lines 356-358: close(syncfd); return status >> 8
Finish(i) ==
    /\ pc[i] = "finish"
    /\ Terminate(i, ReturnValue(status[i]), 358)
    /\ UNCHANGED <<call, hrun, parent, env, recipe, sem, tempout, temperr, child, script, nwrites, live,
                   kstatus, status, teefd, nleft, shorts, faults, out, err, tee>>

Next ==
    \E i \in Procs :
        \/ Classify(i)
        \/ AcquireSerialize(i)
        \/ Spawn(i)
        \/ ChildWrite(i)
        \/ ChildExit(i)
        \/ Wait(i)
        \/ AcquirePublish(i)
        \/ WriteHeadline(i)
        \/ PumpWrite(i)
        \/ Release(i)
        \/ Finish(i)

Spec == Init /\ [][Next]_vars

\* what instance i does itself, and what its child does
InstanceStep(i) ==
    \/ Classify(i) \/ AcquireSerialize(i) \/ Spawn(i) \/ Wait(i) \/ AcquirePublish(i)
    \/ WriteHeadline(i) \/ PumpWrite(i) \/ Release(i) \/ Finish(i)
ChildStep(i) == ChildWrite(i) \/ ChildExit(i)

\* a step in which no system call fails
Succeeds(A) == A /\ faults' = faults

\* the instances and their children are processes of their own, each of which
\* the scheduler lets run; and a process that waits in fcntl(F_SETLKW) for a
\* byte that stays free is granted it.  Nothing is assumed about a byte that
\* is taken again and again by others, and nothing makes a system call fail:
\* a process whose only possible step is a failure may wait for ever
Fairness ==
    \A i \in Procs :
        /\ WF_vars(Succeeds(InstanceStep(i)))
        /\ WF_vars(ChildStep(i))

FairSpec == Init /\ [][Next]_vars /\ Fairness

\* ------------------------------------------------------ nested instances

\* make runs instance 1, whose recipe (a recursive make) runs instance 2; any
\* further instance is run by make like the first.  Each has its own recipe
Nested == [i \in Procs |-> IF i = 2 THEN 1 ELSE 0]

InitNest ==
    /\ \E e \in Envs, r \in [Procs -> Recipes] : Start(e, r)
    /\ call = NoCall
    /\ hrun = NoRun
    /\ parent = Nested

NestSpec == InitNest /\ [][Next]_vars

\* ------------------------------------------- main() from its entry to line 248

\* the instances that synchronize, standing at line 250 with nothing set
Parked ==
    /\ Start([serialize |-> Unset, headline |-> Unset, tee |-> Unset],
             [i \in Procs |-> RecipeC])
    /\ parent = NoParent

InitFront ==
    /\ Parked
    /\ call \in Calls
    /\ hrun = NoRun

\* lines 199-201: usage() writes the usage text to stderr and calls exit(1)
Usage ==
    /\ call.at = "main"
    /\ UsageRequested(call.argv)
    /\ call' = [call EXCEPT !.werr = Append(@, Wrote("usage", <<>>)),
                            !.at = "exited", !.code = 1]
    /\ UNCHANGED <<syncvars, hrun, parent>>

\* lines 223-232: not a recipe: argv[0] = sh, the echo of SYNCSH_VERBOSE,
\* execvp(argv[0], argv), and syserr(2, argv[0]) when execvp returns
PassThrough ==
    /\ call.at = "main"
    /\ ~ UsageRequested(call.argv)
    /\ NotARecipe(call.argv, call.makelevel)
    /\ LET argv == <<ShellOf(call.shell)>> \o Tail(call.argv)
           echoed == IF call.verbose.set
                     THEN Append(call.werr, Wrote("echo", vb(call.verbose.val, argv)))
                     ELSE call.werr
       IN  IF call.execfails
           THEN call' = [call EXCEPT !.werr = Append(echoed, Wrote("syserr", argv[1])),
                                     !.at = "exited", !.code = FatalCode]
           ELSE call' = [call EXCEPT !.werr = echoed, !.at = "execd", !.image = argv]
    /\ UNCHANGED <<syncvars, hrun, parent>>

\* lines 234-245: a recipe: shargv is built and the descriptor to lock is
\* chosen: stdout if it is open, else stderr, else a warning and syncfd stays -1
Synchronize ==
    /\ call.at = "main"
    /\ ~ UsageRequested(call.argv)
    /\ ~ NotARecipe(call.argv, call.makelevel)
    /\ call' = [call EXCEPT
                  !.shargv = <<ShellOf(call.shell), call.argv[2], call.argv[3]>>,
                  !.syncfd = CASE call.streams = "both" -> 1
                               [] call.streams = "stderr" -> 2
                               [] OTHER -> -1,
                  !.werr = IF call.streams = "none"
                           THEN Append(@, Wrote("syserr", <<>>)) ELSE @,
                  !.at = IF call.verbose.set THEN "verbose" ELSE "classify"]
    /\ UNCHANGED <<syncvars, hrun, parent>>

\* lines 247-248: vb(fileno(temperr), verbose, shargv + 2) while temperr is
\* still NULL.  fileno(NULL) is undefined: the C libraries read the FILE
\* object, which kills the process with SIGSEGV; a library that checks its
\* argument returns -1, and every write() of vb() then fails with EBADF
VerboseEcho ==
    /\ call.at = "verbose"
    /\ \/ call' = [call EXCEPT !.at = "killed", !.code = 11]
       \/ call' = [call EXCEPT !.at = "classify"]
    /\ UNCHANGED <<syncvars, hrun, parent>>

NextFront ==
    \/ Usage
    \/ PassThrough
    \/ Synchronize
    \/ VerboseEcho

SpecFront == InitFront /\ [][NextFront]_vars

\* ------------------------------------------------- str_hash(), lines 110-121

InitHash ==
    /\ Parked
    /\ call = NoCall
    /\ hrun \in {[pat |-> q, at |-> "loop", pos |-> 0, i |-> 0, hash |-> 0, ref |-> 0,
                  result |-> NULL] : q \in HashInputs}

\* one round of the for loop: i < len holds, the body runs, then str++, i++.
\* ref follows the recurrence h := (c + 63 * h) mod 2^16 on the same characters
HashRound ==
    /\ hrun.at = "loop"
    /\ hrun.i < StrLen(hrun.pat)
    /\ hrun.pos < StrLen(hrun.pat)
    /\ LET c == CharAt(hrun.pat, hrun.pos) IN
       hrun' = [hrun EXCEPT !.hash = HashStep(hrun.hash, c),
                            !.ref = (c + 63 * hrun.ref) % 65536,
                            !.pos = hrun.pos + 1,
                            !.i = (hrun.i + 1) % CounterMod]
    /\ UNCHANGED <<syncvars, call, parent>>

\* i < len holds although str has reached the end of the string: i is a
\* uint16_t and len is not, so i never reaches a len of CounterMod or more; the
\* loop reads on past the string until it leaves the mapped memory
HashOverrun ==
    /\ hrun.at = "loop"
    /\ hrun.i < StrLen(hrun.pat)
    /\ hrun.pos >= StrLen(hrun.pat)
    /\ hrun' = [hrun EXCEPT !.at = "overrun"]
    /\ UNCHANGED <<syncvars, call, parent>>

\* i < len fails: return hash >> 1
HashReturn ==
    /\ hrun.at = "loop"
    /\ ~ (hrun.i < StrLen(hrun.pat))
    /\ hrun' = [hrun EXCEPT !.at = "returned", !.result = hrun.hash \div 2]
    /\ UNCHANGED <<syncvars, call, parent>>

NextHash ==
    \/ HashRound
    \/ HashOverrun
    \/ HashReturn

SpecHash == InitHash /\ [][NextHash]_vars


\* ------------------------------------------------------------------ claims

\* instance i is between a successful acquire_semaphore and the matching
\* release_semaphore (or its termination)
InCritical(i) == sem[i] # NULL /\ pc[i] \notin {"finish", "exited"}

\* instance i got its lock at line 269 and runs its child under it
IsSerialize(i) == sem[i] # NULL /\ tempout[i] = NULL
\* instance i captures its child's output and publishes it under offset 0
IsPublishOnly(i) == tempout[i] # NULL

\* the segments of stream s that instance i wrote from source src
Written(s, i, src) == SelectSeq(s, LAMBDA g : g.p = i /\ g.src = src)
\* bytes 1..len of source src of instance i, as a canonical stream
Whole(i, src, len) == IF len > 0 THEN <<Seg(i, src, 1, len)>> ELSE <<>>

\* some byte of j lies between two bytes of i in stream s
Interleaved(s, i, j) ==
    \E a, b, c \in 1..Len(s) :
        a < b /\ b < c /\ s[a].p = i /\ s[b].p = j /\ s[c].p = i

\* C1: among the instances that use the same byte offset, at most one is
\* between a successful acquire_semaphore and the matching release
C1_MutualExclusion ==
    \A i, j \in Procs :
        i # j /\ InCritical(i) /\ InCritical(j) => sem[i] # sem[j]

\* C1 witness: one instance is inside its critical section at offset 0 while
\* another one is waiting in acquire_semaphore for the same offset
C1_Witness ==
    \E i, j \in Procs :
        i # j /\ InCritical(i) /\ sem[i] = 0 /\ pc[i] = "pump_out" /\ pc[j] = "acq0"

\* the block a PUBLISH-ONLY instance owes to stdout: the headline line, then
\* all of its captured stdout
Block(i) ==
    (IF env.headline.set THEN <<Seg(i, "hl", 1, Len(env.headline.val) + 1)>> ELSE <<>>)
    \o Whole(i, "cout", tempout[i])

RECURSIVE ConcatBlocks(_, _)
ConcatBlocks(order, k) ==
    IF k > Len(order) THEN <<>> ELSE Block(order[k]) \o ConcatBlocks(order, k + 1)

Orders == {f \in [1..NProcs -> Procs] : \A a, b \in 1..NProcs : a # b => f[a] # f[b]}

\* C2 (as claimed): when PUBLISH-ONLY instances have run to their end, with
\* no system call failing and no short write, stdout is, for some order of the
\* instances, the concatenation of their complete blocks
C2_CompleteBlocks ==
    (/\ \A i \in Procs : pc[i] = "exited" /\ exitvia[i] = 358 /\ IsPublishOnly(i)
     /\ faults = 0 /\ shorts = 0)
    => \E order \in Orders : out = ConcatBlocks(order, 1)

\* C3 (as claimed): whatever the mix of SERIALIZE and PUBLISH-ONLY instances,
\* and even when no system call fails and no write is short, the bytes of two
\* instances are never interleaved on stdout
C3_NoInterleaving ==
    faults = 0 /\ shorts = 0
    => \A i, j \in Procs : i # j => ~ Interleaved(out, i, j)

\* C3 (amended): the bytes of two instances that lock the same offset are
\* never interleaved on stdout
C3_NoInterleavingSameOffset ==
    \A i, j \in Procs :
        i # j /\ sem[i] # NULL /\ sem[i] = sem[j] => ~ Interleaved(out, i, j)

\* C3 witness: a SERIALIZE instance, whose child wrote its output live, and
\* another instance that locked the same offset have both written to stdout
C3_Witness ==
    \E i, j \in Procs :
        /\ i # j /\ IsSerialize(i) /\ sem[i] = sem[j]
        /\ Written(out, i, "lout") # <<>>
        /\ \E a \in 1..Len(out) : out[a].p = j

\* C4 (as claimed): the children of two instances whose recipes both match
\* the configured pattern never run at the same time
C4_SerializeNoOverlap ==
    \A i, j \in Procs :
        i # j /\ Serialized(i) /\ Serialized(j)
        => ~ (child[i] = "running" /\ child[j] = "running")

\* C5 (as claimed): the offset of the SERIALIZE class is never 0, and an
\* instance waiting for offset 0 at line 317 is never kept waiting by an
\* instance that holds its SERIALIZE class lock
C5_ClassOffsetNotZero ==
    /\ \A i \in Procs : IsSerialize(i) => sem[i] # 0
    /\ \A i, j \in Procs :
          pc[i] = "acq0" /\ i # j /\ lock[0] = j => ~ IsSerialize(j)

\* C6: while its child runs, a PUBLISH-ONLY instance holds no lock and waits
\* for none: it asks for offset 0 only once waitpid has reaped the child, and
\* it reaches vfork without calling acquire_semaphore
C6_PublishOnlyParallel ==
    \A i \in Procs :
        /\ IsPublishOnly(i) /\ child[i] = "running"
           => pc[i] = "wait" /\ \A off \in Offsets : lock[off] # i
        /\ pc[i] = "acq0" => child[i] = "reaped"
        /\ pc[i] = "acq_ser" => regexec(env.serialize.val, recipe[i]) = 0

\* C6 witness: the children of all the instances, all of them PUBLISH-ONLY,
\* run at the same time
C6_Witness ==
    \A i \in Procs : IsPublishOnly(i) /\ child[i] = "running"

\* C7: a step that writes bytes of a captured stream of instance i to the
\* real stdout or stderr is taken, from start to end, with the lock at
\* offset 0 held by i
C7_CapturedUnderLock ==
    [][\A i \in Procs :
          (\/ Written(out', i, "cout") # Written(out, i, "cout")
           \/ Written(err', i, "cerr") # Written(err, i, "cerr"))
          => lock[0] = i /\ lock'[0] = i /\ sem[i] = 0]_vars

\* C7 witness: an instance has written captured stdout and captured stderr
\* and still holds the lock
C7_Witness ==
    \E i \in Procs :
        /\ Written(out, i, "cout") # <<>> /\ Written(err, i, "cerr") # <<>>
        /\ lock[0] = i

\* the tee setting lets the run reach the critical section
TeeUsable == ~ env.tee.set \/ is_absolute(env.tee.val)

\* C8 (as claimed): a PUBLISH-ONLY instance whose child has terminated has,
\* when it exits, written the whole captured stdout to stdout and the whole
\* captured stderr to stderr, each exactly once; stated here for the runs in
\* which no system call fails, no write is short and SYNCSH_TEE is usable
C8_PublishedOnceInFull ==
    \A i \in Procs :
        /\ pc[i] = "exited" /\ IsPublishOnly(i) /\ child[i] = "reaped"
        /\ faults = 0 /\ shorts = 0 /\ TeeUsable
        => /\ Written(out, i, "cout") = Whole(i, "cout", tempout[i])
           /\ Written(err, i, "cerr") = Whole(i, "cerr", temperr[i])

\* C9: with SYNCSH_TEE unset or absolute and no fatal failure in the wrapper,
\* an instance whose child exited normally with code c exits with code c
C9_ExitStatusPropagated ==
    \A i \in Procs :
        /\ pc[i] = "exited" /\ child[i] = "reaped" /\ TeeUsable
        /\ exitvia[i] # 303
        => \A c \in 0..255 : kstatus[i] = StatusExited(c) => exitcode[i] = c

\* C9 witness: a SERIALIZE instance and a PUBLISH-ONLY instance have both
\* exited with their child's code 2
C9_Witness ==
    \E i, j \in Procs :
        /\ IsSerialize(i) /\ IsPublishOnly(j)
        /\ \A k \in {i, j} : /\ pc[k] = "exited" /\ exitvia[k] = 358
                             /\ kstatus[k] = StatusExited(2) /\ exitcode[k] = 2

\* C10 (as claimed): an instance whose child was killed by a signal exits,
\* when no system call of the wrapper fails, with a code that is not zero and
\* that no normal exit of the child gives
C10_SignalReported ==
    \A i \in Procs :
        /\ pc[i] = "exited" /\ exitvia[i] = 358 /\ WIFSIGNALED(kstatus[i])
        /\ faults = 0
        => /\ exitcode[i] # 0
           /\ \A c \in 0..255 : exitcode[i] # WEXITSTATUS(StatusExited(c))

\* instance i has run into a failure of its own: tmpfile (line 278), fork
\* (297), lseek (303), or its child never ran the recipe because close/dup2
\* or execvp failed in it
InternalFailure(i) ==
    \/ exitvia[i] \in {278, 297, 303}
    \/ child[i] \in {"zombie", "reaped"} /\ script[i] = NoScript

\* C11 (as claimed): with SYNCSH_TEE usable, an instance exits with the
\* reserved code 2 exactly when it has met an internal fatal error, so a run
\* whose job failed never ends with the code of a run whose wrapper failed
C11_FatalCodeReserved ==
    \A i \in Procs :
        pc[i] = "exited" /\ TeeUsable
        => (exitcode[i] = FatalCode <=> InternalFailure(i))

\* acquire_semaphore has failed in instance i: its perror() is on stderr
AcquireFailed(i) == \E k \in 1..Len(err) : err[k] = Seg(i, "diag", 166, 166)

\* C12 (as claimed): an instance whose acquire_semaphore failed has
\* terminated with the reserved fatal exit code
C12_AcquireFailureFatal ==
    \A i \in Procs :
        AcquireFailed(i) => pc[i] = "exited" /\ exitcode[i] = FatalCode

\* the invocation has left the dispatch test of main()
Dispatched == call.at \notin {"none", "main"}

\* the condition of the claim: 3 tokens, the second starts with '-' and
\* contains 'c', the third does not start with '-', MAKELEVEL is present
RecipeShape ==
    IF Len(call.argv) # 3 THEN FALSE
    ELSE /\ Len(call.argv[2]) > 0 /\ call.argv[2][1] = 45
         /\ \E k \in 1..Len(call.argv[2]) : call.argv[2][k] = 99
         /\ ~ (Len(call.argv[3]) > 0 /\ call.argv[3][1] = 45)
         /\ call.makelevel

\* the wrapper has replaced itself with the configured shell, the arguments
\* after the program name unchanged
ShellInPlace ==
    /\ call.at = "execd"
    /\ call.image = <<IF call.shell.set THEN call.shell.val ELSE DefaultShell>>
                    \o Tail(call.argv)

\* the command line asks for the usage text the README documents: no argument
\* at all, or -h
AsksForUsage == IF Len(call.argv) <= 1 THEN TRUE ELSE call.argv[2] = ArgDashH

\* C13 (as claimed): an invocation that does not ask for the usage text and
\* whose shell can be executed takes the synchronizing path exactly when it has
\* the shape of a recipe, and in every other case replaces itself with the shell
C13_Dispatch ==
    Dispatched /\ ~ AsksForUsage /\ ~ call.execfails
    => IF RecipeShape THEN call.shargv # <<>> ELSE ShellInPlace

\* C14 (as claimed): an invocation without MAKELEVEL, here with SYNCSH_VERBOSE
\* unset, no request for the usage text and a shell that can be executed,
\* writes nothing itself and replaces itself with the shell
C14_PassThroughFidelity ==
    Dispatched /\ ~ call.makelevel /\ ~ call.verbose.set /\ ~ AsksForUsage
               /\ ~ call.execfails
    => call.werr = <<>> /\ ShellInPlace

\* SYNCSH_SERIALIZE is set, compiles and matches the recipe of instance i: of
\* the patterns "D", "AAA" and "[", the first two compile, and each of them
\* occurs in the recipe "DAAA" and not in "C"
PatternMatches(i) ==
    /\ env.serialize.set
    /\ env.serialize.val \in {PatD, PatAAA}
    /\ recipe[i] = RecipeDAAA

\* C15: the step that classifies instance i goes to acquire_semaphore with the
\* class offset exactly when SYNCSH_SERIALIZE is set, compiles and matches the
\* recipe; otherwise it creates the capture files (or dies of tmpfile at line
\* 278), a pattern that does not compile costs a message at line 260 and
\* nothing else, and the only lock such an instance ever takes is offset 0
C15_Classification ==
    [][\A i \in Procs :
          /\ pc[i] = "classify" /\ pc'[i] # "classify"
             => /\ pc'[i] = "acq_ser" <=> PatternMatches(i)
                /\ ~ PatternMatches(i)
                   => \/ tempout'[i] # NULL /\ temperr'[i] # NULL /\ pc'[i] = "spawn"
                      \/ exitvia'[i] = 278
                /\ (env.serialize.set /\ env.serialize.val = PatBad)
                   <=> err' # err /\ err'[Len(err) + 1] = Seg(i, "diag", 260, 260)
          /\ sem'[i] # sem[i] /\ ~ PatternMatches(i) => sem'[i] = 0 /\ tempout[i] # NULL
          /\ sem'[i] # sem[i] /\ pc[i] = "acq_ser"
             => sem'[i] = str_hash(env.serialize.val) /\ tempout[i] = NULL]_vars

\* C15 witness: under the pattern "D" the instance with recipe "DAAA" holds the
\* class lock and runs its child, the instance with recipe "C" has captured
\* its child's output and holds offset 0
C15_Witness ==
    \E i, j \in Procs :
        /\ env.serialize.set /\ env.serialize.val = PatD
        /\ recipe[i] = RecipeDAAA /\ sem[i] = str_hash(PatD) /\ child[i] = "running"
        /\ recipe[j] = RecipeC /\ sem[j] = 0 /\ tempout[j] > 0

\* C16 (as claimed): for every pattern of 7-bit characters str_hash returns,
\* and what it returns is floor(h / 2) for the h of the recurrence
\* h := (c + 63 * h) mod 2^16, a value in 0..32767
C16_HashValue ==
    /\ hrun.at # "overrun"
    /\ hrun.at = "returned"
       => hrun.result = hrun.ref \div 2 /\ hrun.result \in 0..32767

\* the headline line: the value of SYNCSH_HEADLINE and a line break
HeadlineLine(i) == <<Seg(i, "hl", 1, Len(env.headline.val) + 1)>>

\* what instance i has written to stream s, whatever the source
WrittenBy(s, i) == SelectSeq(s, LAMBDA g : g.p = i)

\* the bytes of the segments s, put together in the order they were written
RECURSIVE Pack(_, _)
Pack(s, acc) == IF s = <<>> THEN acc ELSE Pack(Tail(s), Emit(acc, Head(s)))

\* C17 (as claimed): when SYNCSH_HEADLINE is set and no system call fails,
\* an instance that has returned from main at line 358, SERIALIZE or
\* PUBLISH-ONLY, has written the headline line to stdout once, ahead of
\* everything else it or its child wrote there
C17_HeadlineBothPaths ==
    \A i \in Procs :
        env.headline.set /\ pc[i] = "exited" /\ exitvia[i] = 358 /\ faults = 0
        => /\ Pack(Written(out, i, "hl"), <<>>) = HeadlineLine(i)
           /\ Head(WrittenBy(out, i)).src = "hl"

\* C18 (as claimed): when no system call fails and no write is short, a
\* PUBLISH-ONLY instance that opened the tee file and has returned from main
\* has appended to it the headline line (if configured), then all of its
\* captured stdout, then all of its captured stderr, and the content the file
\* had before is still in front
C18_TeeDuplication ==
    \A i \in Procs :
        /\ pc[i] = "exited" /\ exitvia[i] = 358 /\ IsPublishOnly(i) /\ teefd[i] > 0
        /\ faults = 0 /\ shorts = 0
        => /\ WrittenBy(tee, i) = (IF env.headline.set THEN HeadlineLine(i) ELSE <<>>)
                                  \o Whole(i, "cout", tempout[i])
                                  \o Whole(i, "cerr", temperr[i])
           /\ Head(tee) = Seg(0, "old", 1, 1)
           /\ \A j \in Procs : j # i => ~ Interleaved(tee, i, j)

\* C19 (as claimed): on the synchronizing path with SYNCSH_VERBOSE set, once
\* the echo step of lines 247-248 is over the recipe has been echoed behind
\* the prefix and the instance goes on to classify
C19_VerboseProceeds ==
    call.shargv # <<>> /\ call.verbose.set /\ call.at # "verbose"
    => /\ call.at = "classify"
       /\ \E k \in 1..Len(call.werr) :
             call.werr[k] = Wrote("echo", call.verbose.val \o call.argv[3] \o <<10>>)

\* instance i was classified SERIALIZE and its acquire_semaphore at line 269
\* has succeeded
OnSerializePath(i) ==
    PatternMatches(i) /\ pc[i] \notin {"classify", "acq_ser"} /\ ~ AcquireFailed(i)

\* the bytes the first n write() calls of a script send to descriptor fd
RECURSIVE Sent(_, _, _)
Sent(writes, n, fd) ==
    IF n = 0 THEN 0
    ELSE Sent(writes, n - 1, fd) + (IF writes[n][1] = fd THEN writes[n][2] ELSE 0)

\* C20: an instance on the SERIALIZE path holds the lock of its class offset
\* from the acquire until release_semaphore (or its exit); its child is
\* spawned after the acquire, lives only while the lock is held, and has been
\* reaped by waitpid before the release; no capture file exists, and all the
\* child has written is on the real stdout and stderr
C20_SerializeOrdering ==
    \A i \in Procs :
        OnSerializePath(i)
        => /\ sem[i] = str_hash(env.serialize.val)
           /\ tempout[i] = NULL /\ temperr[i] = NULL
           /\ pc[i] \in {"spawn", "wait", "release"} => lock[sem[i]] = i
           /\ pc[i] = "spawn" => child[i] = "none"
           /\ child[i] \in {"running", "zombie"} => pc[i] = "wait"
           /\ pc[i] \in {"release", "finish"} => child[i] = "reaped"
           /\ pc[i] \in {"spawn", "wait", "release", "finish", "exited"}
           /\ Pack(Written(out, i, "lout"), <<>>) = Whole(i, "lout", live[i][1])
           /\ Pack(Written(err, i, "lerr"), <<>>) = Whole(i, "lerr", live[i][2])
           /\ script[i] # NoScript
              => /\ live[i][1] = Sent(script[i].writes, nwrites[i], 1)
                 /\ live[i][2] = Sent(script[i].writes, nwrites[i], 2)
           /\ Written(out, i, "cout") = <<>> /\ Written(err, i, "cerr") = <<>>

\* C20 witness: the child of an instance on the SERIALIZE path has written to
\* the real stdout and is still running, while another instance waits for the
\* same class lock
C20_Witness ==
    \E i, j \in Procs :
        /\ i # j /\ OnSerializePath(i) /\ child[i] = "running"
        /\ Written(out, i, "lout") # <<>> /\ lock[sem[i]] = i
        /\ pc[j] = "acq_ser"

\* instance i makes a write() of pump_from_tmp_fd in this step
Pumps(i) == <<pc[i], nleft[i]>> # <<pc'[i], nleft'[i]>>

\* C21 (as claimed): when no system call fails, a PUBLISH-ONLY instance that
\* writes a byte of its captured stderr to stderr has already written the
\* headline line and the whole of its captured stdout to stdout, and the
\* same to the tee file if it has one, and nothing of its captured stderr to
\* the tee file
C21_EmissionOrder ==
    [][\A i \in Procs :
          IsPublishOnly(i) /\ faults = 0 /\ pc[i] = "pump_err" /\ Pumps(i)
          => /\ env.headline.set => Pack(Written(out, i, "hl"), <<>>) = HeadlineLine(i)
             /\ Pack(Written(out, i, "cout"), <<>>) = Whole(i, "cout", tempout[i])
             /\ teefd[i] > 0
                => /\ Pack(Written(tee, i, "cout"), <<>>) = Whole(i, "cout", tempout[i])
                   /\ Written(tee, i, "cerr") = <<>>]_vars

\* the open() of line 314 has failed in instance i
OpenFailed(i) ==
    /\ env.tee.set /\ is_absolute(env.tee.val)
    /\ child[i] = "reaped" /\ exitvia[i] # 303 /\ teefd[i] = -1

\* SYNCSH_TEE is set and names no file that instance i could open
TeeProblem(i) ==
    /\ env.tee.set
    /\ \/ ~ is_absolute(env.tee.val) /\ faults = 0
       \/ OpenFailed(i)

\* C22 (as claimed): an instance with a tee problem and nothing else wrong,
\* whose child exited with code c, returns c from line 358, and if it is
\* PUBLISH-ONLY it has written all of its captured stdout to stdout and all
\* of its captured stderr to stderr; stated for captures that fit the buffer
\* and runs without short writes
C22_TeeBestEffort ==
    \A i \in Procs :
        /\ pc[i] = "exited" /\ child[i] = "reaped" /\ TeeProblem(i)
        /\ WIFEXITED(kstatus[i]) /\ shorts = 0
        /\ tempout[i] <= BufSize /\ temperr[i] <= BufSize
        => /\ exitvia[i] = 358
           /\ exitcode[i] = WEXITSTATUS(kstatus[i])
           /\ IsPublishOnly(i)
              => /\ Pack(Written(out, i, "cout"), <<>>) = Whole(i, "cout", tempout[i])
                 /\ Pack(Written(err, i, "cerr"), <<>>) = Whole(i, "cerr", temperr[i])

\* the stream a pump at stage st writes to, and the capture it reads
PumpTarget(st) ==
    CASE st = "pump_out" -> out' [] st = "pump_err" -> err' [] OTHER -> tee'
PumpSource(i, st) ==
    IF st \in {"pump_out", "pump_out_tee"} THEN <<"cout", tempout[i]>>
                                           ELSE <<"cerr", temperr[i]>>

\* C23 (as claimed): when a call of pump_from_tmp_fd returns, whatever the
\* write() calls accepted, the destination has received the bytes of the
\* source, each once and in order; stated for sources that fit the buffer
C23_VerbatimReplay ==
    [][\A i \in Procs :
          /\ pc[i] \in {"pump_out", "pump_out_tee", "pump_err", "pump_err_tee"}
          /\ pc'[i] # pc[i]
          /\ PumpSource(i, pc[i])[2] <= BufSize
          => Pack(Written(PumpTarget(pc[i]), i, PumpSource(i, pc[i])[1]), <<>>)
                = Whole(i, PumpSource(i, pc[i])[1], PumpSource(i, pc[i])[2])]_vars

\* instance i waits in acquire_semaphore
Waiting(i) == pc[i] \in {"acq_ser", "acq0"}

\* C24: under FairSpec every instance exits, so that none waits for ever in
\* acquire_semaphore and no state is a deadlock; and an instance leaves
\* acquire_semaphore with the lock on the byte it asked for, unless fcntl()
\* failed
C24_Progress ==
    /\ <>(\A i \in Procs : pc[i] = "exited")
    /\ [][\A i \in Procs :
             Waiting(i) /\ ~ Waiting(i)'
             => \/ sem'[i] # NULL /\ lock'[sem'[i]] = i
                \/ AcquireFailed(i)']_vars

\* an instance waits for a byte that another instance holds
C24_Witness ==
    \E i, j \in Procs :
        /\ i # j /\ pc[i] = "acq_ser" /\ lock[str_hash(env.serialize.val)] = j
        /\ pc[j] = "wait" /\ child[j] = "running"

\* the bytes that instance i holds
Held(i) == {o \in Offsets : lock[o] = i}

\* C25: an instance that has terminated, by whatever path, holds no lock;
\* and a release_semaphore whose fcntl() succeeds frees the byte that the
\* instance acquired, which it still held, and changes no other byte
C25_ReleasedOnEveryPath ==
    /\ [](\A i \in Procs : pc[i] = "exited" => Held(i) = {})
    /\ [][\A i \in Procs :
             pc[i] = "release" /\ pc'[i] = "finish" /\ err' = err
             => /\ Held(i) = {sem[i]}
                /\ lock' = [lock EXCEPT ![sem[i]] = 0]]_vars

\* an instance has left by the early return of line 312 with its class lock
\* held, and another instance has since acquired that byte
C25_Witness ==
    \E i, j \in Procs :
        /\ i # j /\ pc[i] = "exited" /\ exitvia[i] = 312 /\ IsSerialize(i)
        /\ sem[i] # 0 /\ lock[sem[i]] = j

\* C26: an instance holds at most one byte, and holds none while it is in
\* acquire_semaphore
C26_NoHoldAndWait ==
    \A i \in Procs :
        /\ Cardinality(Held(i)) <= 1
        /\ Waiting(i) => Held(i) = {}

\* a SERIALIZE instance has passed line 317 with its class lock and without
\* asking for byte 0, which another instance holds meanwhile
C26_Witness ==
    \E i, j \in Procs :
        /\ i # j /\ IsSerialize(i) /\ pc[i] = "release" /\ Held(i) = {sem[i]}
        /\ sem[i] # 0 /\ Held(j) = {0}

\* the wrapper process of instance i (not its child) writes to stream s in
\* this step: a headline, a pump or a diagnostic of its own
WrapperWrites(s, i) ==
    LET mine(g) == g.p = i /\ g.src \in {"hl", "cout", "cerr", "diag"}
    IN  Pack(SelectSeq(s, mine), <<>>) # Pack(SelectSeq(s', mine), <<>>)

\* C27 (as claimed): when no system call fails, a step in which the wrapper
\* process of an instance writes to the real stdout or stderr starts with the
\* instance inside its critical section, holding its byte
C27_WritesUnderLock ==
    [][\A i \in Procs :
          faults = 0 /\ faults' = 0 /\ (WrapperWrites(out, i) \/ WrapperWrites(err, i))
          => InCritical(i) /\ Held(i) = {sem[i]}]_vars

\* instance j, run by the recipe of instance i, has been started, and both
\* recipes match the pattern of SYNCSH_SERIALIZE
NestedPair(i, j) ==
    /\ parent[j] = i /\ pc[j] # "classify"
    /\ PatternMatches(i) /\ PatternMatches(j)

\* C28 (as claimed): once the recipe of a SERIALIZE instance has started an
\* instance of the same class, both exit: no state is reached in which one of
\* them has not exited and nothing but a failing system call can happen
C28_NestedInstancesExit ==
    \A i, j \in Procs :
        NestedPair(i, j)
        => \/ pc[i] = "exited" /\ pc[j] = "exited"
           \/ ENABLED Succeeds(Next)

====
